---------------------------- MODULE Spec2Model ----------------------------
(***************************************************************************)
(* Post-training quantization calibration of batched matrix multiplies:    *)
(*   src/quantizers/uniform.py                         UniformQuantizer    *)
(*   src/Object-Detection/tools/quant_layers/matmul.py the matmul operators*)
(*   src/utils/calibrator.py                           QuantCalibrator     *)
(*                                                                         *)
(* Numbers.  Tensors hold integers; every derived real is an exact         *)
(* rational in lowest terms.  A value that the floating-point code         *)
(* produces as NaN or +-inf is kept as such (records with a "k" field),    *)
(* because a zero scale divides by zero.                                   *)
(* Rounding of float32 arithmetic itself is not modelled.                  *)
(*                                                                         *)
(* Shapes.  A is [calib, heads, 1, InnerDim], B is [calib, heads,          *)
(* InnerDim, 1], so A @ B is one dot product per sample and head.          *)
(* head_channel_wise is True (the constructor default): one scale and one  *)
(* zero point per head.                                                    *)
(***************************************************************************)
EXTENDS Integers, Sequences, FiniteSets, TLC

\* ------------------------------------------------------------------ bounds
NumModules == 2        \* modules returned by model.named_modules()
NumHeads == 1          \* num_heads of every operator
EqN == 2               \* eq_n of every searched operator (the code's default is 100)
MaxPar == 2            \* largest memory-derived parallelism tried
MaxRound == 1          \* largest search_round
MaxRuns == 2           \* batching_quant_calib() calls in one behaviour
MaxElems == 4          \* elements one quantile call can take when memory is ample
MaxX == 1              \* |x| of the arguments of direct forward calls

Modules == 1..NumModules
Heads == 1..NumHeads
Sides == {"A", "B"}

\* ------------------------------------------------------------- arithmetic
Abs(x) == IF x < 0 THEN -x ELSE x

Min(a, b) == IF a <= b THEN a ELSE b

Max(a, b) == IF a >= b THEN a ELSE b

\* ceil(n / d) for n >= 0, d > 0 (math.ceil of a float quotient)
CeilDiv(n, d) == (n + d - 1) \div d

\* torch.round of the rational n / d, d > 0: to nearest, halves to even
Round(n, d) ==
    LET q == n \div d
        r == n % d
    IN IF 2 * r < d THEN q
       ELSE IF 2 * r > d THEN q + 1
       ELSE IF q % 2 = 0 THEN q ELSE q + 1

RECURSIVE SumSeq(_)
SumSeq(s) == IF s = <<>> THEN 0 ELSE Head(s) + SumSeq(Tail(s))

RECURSIVE Pow2(_)
Pow2(n) == IF n = 0 THEN 1 ELSE 2 * Pow2(n - 1)


\* ------------------------------------------------------------ float values
\* A float is a finite rational n/d in lowest terms (d > 0), NaN, +inf or -inf.
RECURSIVE GCD(_, _)
GCD(a, b) == IF b = 0 THEN a ELSE GCD(b, a % b)

LCM(a, b) == (a \div GCD(a, b)) * b

Fin(n, d) == [k |-> "fin", n |-> n \div GCD(Abs(n), d), d |-> d \div GCD(Abs(n), d)]

NaN == [k |-> "nan", n |-> 0, d |-> 1]

PInf == [k |-> "pinf", n |-> 0, d |-> 1]

NInf == [k |-> "ninf", n |-> 0, d |-> 1]

IsFin(f) == f.k = "fin"

FNeg(f) ==
    CASE f.k = "fin" -> Fin(-f.n, f.d)
      [] f.k = "pinf" -> NInf
      [] f.k = "ninf" -> PInf
      [] OTHER -> NaN

\* IEEE addition
FAdd(a, b) ==
    CASE a.k = "nan" \/ b.k = "nan" -> NaN
      [] a.k = "fin" /\ b.k = "fin" ->
            Fin(a.n * (LCM(a.d, b.d) \div a.d) + b.n * (LCM(a.d, b.d) \div b.d),
                LCM(a.d, b.d))
      [] a.k = "fin" -> b
      [] b.k = "fin" -> a
      [] a.k = b.k -> a
      [] OTHER -> NaN

FSub(a, b) == FAdd(a, FNeg(b))

\* IEEE multiplication (inf * 0 is NaN)
FMul(a, b) ==
    CASE a.k = "nan" \/ b.k = "nan" -> NaN
      [] a.k = "fin" /\ b.k = "fin" -> Fin(a.n * b.n, a.d * b.d)
      [] (a.k = "fin" /\ a.n = 0) \/ (b.k = "fin" /\ b.n = 0) -> NaN
      [] OTHER ->
            LET neg(f) == f.k = "ninf" \/ (f.k = "fin" /\ f.n < 0)
            IN IF neg(a) = neg(b) THEN PInf ELSE NInf

\* IEEE division of finite floats (x/0 is +-inf, 0/0 is NaN)
FDiv(a, b) ==
    CASE a.k = "nan" \/ b.k = "nan" -> NaN
      [] a.k = "fin" /\ b.k = "fin" ->
            IF b.n = 0
            THEN (IF a.n > 0 THEN PInf ELSE IF a.n < 0 THEN NInf ELSE NaN)
            ELSE IF b.n > 0 THEN Fin(a.n * b.d, a.d * b.n)
            ELSE Fin(-(a.n * b.d), a.d * (-b.n))
      [] a.k = "fin" -> Fin(0, 1)
      [] b.k = "fin" ->
            IF (a.k = "pinf") = (b.n >= 0) THEN PInf ELSE NInf
      [] OTHER -> NaN

\* torch.round
FRound(f) == IF IsFin(f) THEN Fin(Round(f.n, f.d), 1) ELSE f

\* Tensor.clamp(lo, hi) with integer limits; NaN stays NaN
FClamp(f, lo, hi) ==
    CASE f.k = "nan" -> NaN
      [] f.k = "pinf" -> Fin(hi, 1)
      [] f.k = "ninf" -> Fin(lo, 1)
      [] OTHER -> IF f.n < lo * f.d THEN Fin(lo, 1)
                  ELSE IF f.n > hi * f.d THEN Fin(hi, 1) ELSE f

\* a < b on floats; every comparison with NaN is false
FLess(a, b) ==
    CASE a.k = "nan" \/ b.k = "nan" -> FALSE
      [] a.k = "fin" /\ b.k = "fin" ->
            a.n * (LCM(a.d, b.d) \div a.d) < b.n * (LCM(a.d, b.d) \div b.d)
      [] a.k = "ninf" -> b.k # "ninf"
      [] b.k = "pinf" -> a.k # "pinf"
      [] OTHER -> FALSE

\* a <= b on floats
FLeq(a, b) ==
    CASE a.k = "nan" \/ b.k = "nan" -> FALSE
      [] a.k = "fin" /\ b.k = "fin" ->
            a.n * (LCM(a.d, b.d) \div a.d) <= b.n * (LCM(a.d, b.d) \div b.d)
      [] OTHER -> a.k = b.k \/ FLess(a, b)

\* a = b as numbers (NaN equals nothing)
FEq(a, b) == FLeq(a, b) /\ FLeq(b, a)

FAbs(f) == IF f.k = "ninf" THEN PInf ELSE IF IsFin(f) THEN Fin(Abs(f.n), f.d) ELSE f

RECURSIVE FSum(_)
FSum(s) == IF s = <<>> THEN Fin(0, 1)
           ELSE IF Len(s) = 1 THEN s[1] ELSE FAdd(Head(s), FSum(Tail(s)))

\* ------------------------------------------------------- UniformQuantizer
\* A quantizer is a record
\*   [n_bits, sym, inited, training_mode, drop_lt_1, scale, zero_point]
\* with scale and zero_point one float per head.  drop_lt_1 is drop_prob < 1.0.
n_levels(q) == Pow2(q.n_bits - 1)

\* uniform.py 8-16: the state __init__ leaves; scale and zero_point are not
\* attributes of a bare UniformQuantizer (the operators add them, as zeros).
UniformQuantizer(n_bits, symmetric) ==
    [n_bits |-> n_bits, sym |-> symmetric, inited |-> FALSE,
     training_mode |-> FALSE, drop_lt_1 |-> FALSE,
     scale |-> [h \in Heads |-> Fin(0, 1)],
     zero_point |-> [h \in Heads |-> Fin(0, 1)]]

\* the symmetric clamp written for the asymmetric range
SymQuantWrongClamp(x_int, L) == FClamp(x_int, 0, 2 * L - 1)

\* uniform.py 32: x_int.clamp(-n_levels, n_levels - 1)
SymQuant(x_int, L) == FClamp(x_int, -L, L - 1)

\* uniform.py 30-36 on one element x of head h: round, clamp, dequantize
FakeQuant(q, h, x) ==
    LET x_int == FRound(FDiv(x, q.scale[h]))
        zp == FRound(q.zero_point[h])
    IN IF q.sym
       THEN FMul(SymQuant(x_int, n_levels(q)), q.scale[h])
       ELSE FMul(FSub(FClamp(FAdd(x_int, zp), 0, 2 * n_levels(q) - 1), zp),
                 q.scale[h])

\* uniform.py 27: the failure of `assert self.inited`, as a caller sees it
NotInitedError == "AssertionError: not inited"

\* matmul.py 46: the failure of `assert self.calibrated`, as a caller sees it
NotCalibratedError == "AssertionError: Module should be calibrated"

AssertionError == [k |-> "AssertionError", n |-> 0, d |-> 1]

\* the assertion made before the bit-width test
forward_assert_first(q, h, x) ==
    IF ~q.inited THEN {AssertionError}
    ELSE IF q.n_bits = 32 THEN {x}
    ELSE {FakeQuant(q, h, x)}

\* uniform.py 24-40: the set of values forward can return for element x of
\* head h (two when the stochastic bypass of lines 37-39 draws per element)
UniformQuantizer_forward(q, h, x) ==
    IF q.n_bits = 32 THEN {x}
    ELSE IF ~q.inited THEN {AssertionError}
    ELSE IF q.training_mode /\ q.drop_lt_1 THEN {FakeQuant(q, h, x), x}
    ELSE {FakeQuant(q, h, x)}


\* ----------------------------------------------------------------- tensors
\* A tensor of raw_input is a sequence over the calibration samples of
\* [h \in Heads |-> <<x_1, ..., x_InnerDim>>] (integers); raw_out is a
\* sequence over the samples of [h \in Heads |-> float], the one output element.
RECURSIVE Flatten(_)
Flatten(ss) == IF ss = <<>> THEN <<>> ELSE Head(ss) \o Flatten(Tail(ss))

\* x.transpose(0, 1) ... view(heads, 1, -1): head h's elements in sample order
HeadElems(x, h) == Flatten([s \in 1..Len(x) |-> x[s][h]])

\* A @ B for one sample and head: the dot product of a row and a column (floats)
Dot(a, b) == FSum([c \in 1..Len(a) |-> FMul(a[c], b[c])])

ToFloat(row) == [c \in 1..Len(row) |-> Fin(row[c], 1)]

\* ------------------------------------------------- percentile candidates
\* matmul.py 244 evaluates l + (r - l) * (i / (eq_n - 1)) ** k at l = 0.999,
\* r = 0.99999, k = 0.1 (the arguments of lines 264-265).  The model keeps the
\* formula and evaluates it at l = 3/5, r = 4/5, k = 1, so that the levels
\* are rationals with the small common denominator PctDen and the products
\* below stay in TLC's integers: eq_n increasing levels in (1/2, 1), then 1.0.
PctL == <<3, 5>>

PctR == <<4, 5>>

PctDen == PctL[2] * (EqN - 1)

\* matmul.py 244: numerator of pct[i] over PctDen, i in 0..eq_n
pct(i) ==
    IF i = EqN THEN PctDen
    ELSE PctL[1] * (EqN - 1) + (PctR[1] - PctL[1]) * i

\* torch.quantile(xs, pn / PctDen) with linear interpolation, as a numerator
\* over PctDen: pos = q * (n - 1), x[lo] + (x[lo + 1] - x[lo]) * (pos - lo)
Quantile(xs, pn) ==
    LET srt == SortSeq(xs, LAMBDA a, b: a < b)
        n == Len(xs)
        lo == (pn * (n - 1)) \div PctDen
        fr == pn * (n - 1) - lo * PctDen
    IN IF fr = 0 THEN srt[lo + 1] * PctDen
       ELSE srt[lo + 1] * PctDen + (srt[lo + 2] - srt[lo + 1]) * fr

\* x_.view(heads, mini_batch_size, -1): the g-th of mbs contiguous groups
Group(xs, mbs, g) ==
    SubSeq(xs, (g - 1) * (Len(xs) \div mbs) + 1, g * (Len(xs) \div mbs))

\* whether view(heads, mini_batch_size, -1) is a valid shape
ViewOk(xs, mbs) == mbs <= Len(xs) /\ Len(xs) % mbs = 0

\* matmul.py 253-254: quantile over the last axis, mean over the groups; the
\* numerator of the mean over the denominator PctDen * mbs
QuantileMean(xs, mbs, pn) ==
    SumSeq([g \in 1..mbs |-> Quantile(Group(xs, mbs, g), pn)])

\* matmul.py 243-260 once the quantile call succeeds at grouping mbs:
\* uppers and lowers, each [i \in 0..eq_n -> [h \in Heads -> numerator]] over
\* the denominator den = PctDen * mbs
calculate_percentile_candidates(x, mbs) ==
    [uppers |-> [i \in 0..EqN |-> [h \in Heads |->
                    QuantileMean(HeadElems(x, h), mbs, pct(i))]],
     lowers |-> [i \in 0..EqN |-> [h \in Heads |->
                    QuantileMean(HeadElems(x, h), mbs, PctDen - pct(i))]],
     den |-> PctDen * mbs]

\* matmul.py 266-267, 288-289 for one candidate and head, from its upper and
\* lower (numerators over den) and the quantizer's bit width:
\*   scale = (upper - lower) / (2 * n_levels - 1)
\*   zero_point = -(lower / scale).round()
\* For n_bits = 32 the divisor 2^32 - 1 is outside TLC's integers: the two
\* values are then kept unevaluated, scale as n / (d * (2^32 - 1)) under the
\* kind "fin32" and zero_point as -round(n * (2^32 - 1) / d) under "zp32".
\* No arithmetic reads them: a 32-bit quantizer's forward returns x (line 26).
ScaleOf(upper, lower, den, n_bits) ==
    IF n_bits = 32 THEN [k |-> "fin32", n |-> upper - lower, d |-> den]
    ELSE Fin(upper - lower, den * (2 * Pow2(n_bits - 1) - 1))

ZeroPointOf(upper, lower, den, n_bits) ==
    IF n_bits = 32 THEN [k |-> "zp32", n |-> lower, d |-> upper - lower]
    ELSE FNeg(FRound(FDiv(Fin(lower, den), ScaleOf(upper, lower, den, n_bits))))

\* matmul.py 266-269 and 288-300: the grid of eq_n + 1 (scale, zero_point)
\* pairs from uppers and lowers ([i \in 0..eq_n -> [h \in Heads -> numerator]])
Candidates(uppers, lowers, den, n_bits) ==
    [scale |-> [i \in 0..EqN |-> [h \in Heads |->
                   ScaleOf(uppers[i][h], lowers[i][h], den, n_bits)]],
     zero_point |-> [i \in 0..EqN |-> [h \in Heads |->
                   ZeroPointOf(uppers[i][h], lowers[i][h], den, n_bits)]]]

\* torch.gather(candidates, dim=0, index=best_index), broadcast against the
\* other, swept endpoint: the held endpoint is the same for every i
Gather(cands, best_index) == [i \in 0..EqN |-> [h \in Heads |-> cands[best_index[h]][h]]]


\* ------------------------------------------------------------- similarity
Metrics == {"mae", "mse", "hessian", "jacobian", "hessian_new"}

\* matmul.py 104-121 on one element; raw_grad is None throughout, because
\* batching_quant_calib registers no grad hook (calibrator.py 52-57):
\* the gradient metrics fail the assertion of line 110, any other name
\* raises NotImplementedError.
_get_similarity(tensor_raw, tensor_sim, metric) ==
    CASE metric = "mae" -> FNeg(FAbs(FSub(tensor_raw, tensor_sim)))
      [] metric = "mse" ->
            FNeg(FMul(FSub(tensor_raw, tensor_sim), FSub(tensor_raw, tensor_sim)))
      [] OTHER -> NaN

\* whether _get_similarity raises for this metric
SimilarityRaises(metric) == metric \notin {"mae", "mse"}

\* matmul.py 184-185 (222-223): one element quantized and dequantized with a
\* candidate's scale and zero_point
CandQuant(x, scale, zero_point, n_bits) ==
    FMul(FSub(FClamp(FAdd(FRound(FDiv(x, scale)), zero_point),
                     0, 2 * Pow2(n_bits - 1) - 1),
              zero_point),
         scale)

\* matmul.py 170: the chunk starts range(0, calib_size, calib_batch_size)
ChunkStarts(calib_size, calib_batch_size) ==
    [j \in 1..CeilDiv(calib_size, calib_batch_size) |-> (j - 1) * calib_batch_size]

\* matmul.py 178: the group starts range(0, eq_n, parallel_eq_n)
GroupStarts(eq_n, parallel_eq_n) ==
    [j \in 1..CeilDiv(eq_n, parallel_eq_n) |-> (j - 1) * parallel_eq_n]

\* matmul.py 178-181: the candidate indices sliced [p_st:p_ed], in the order
\* the loop visits them
RECURSIVE Range(_, _)
Range(a, b) == IF a >= b THEN <<>> ELSE <<a>> \o Range(a + 1, b)

Evaluated(eq_n, parallel_eq_n) ==
    Flatten([j \in 1..Len(GroupStarts(eq_n, parallel_eq_n)) |->
                Range(GroupStarts(eq_n, parallel_eq_n)[j],
                      Min(eq_n, GroupStarts(eq_n, parallel_eq_n)[j] + parallel_eq_n))])

\* torch.argmax over dim 0 of sims (a sequence of floats, index 0 first):
\* the first NaN if there is one, else the first maximum
ArgMax(sims) ==
    LET idx == 1..Len(sims)
    IN IF \E i \in idx : sims[i].k = "nan"
       THEN (CHOOSE i \in idx : sims[i].k = "nan"
                                /\ \A j \in idx : sims[j].k = "nan" => i <= j) - 1
       ELSE (CHOOSE i \in idx : /\ \A j \in idx : FLeq(sims[j], sims[i])
                                /\ \A j \in idx : FEq(sims[j], sims[i]) => i <= j) - 1


\* ------------------------------------------------ per-side candidate search
\* quant_input_A / quant_input_B (matmul.py 39-43) on one element: the
\* quantizer's forward; the operators never enable the training sub-mode, so
\* the set of outcomes is a singleton
quant_input(q, h, x) == CHOOSE r \in UniformQuantizer_forward(q, h, x) : TRUE

\* matmul.py 172-187 for sample s, head h and candidate i of the searched side:
\* the searched side under the candidate, the other side under its quantizer,
\* their product scored against raw_out
SampleSimilarity(op, side, cands, i, s, h) ==
    LET a == ToFloat(op.raw_input.A[s][h])
        b == ToFloat(op.raw_input.B[s][h])
        qa == [c \in 1..Len(a) |->
                 IF side = "A"
                 THEN CandQuant(a[c], cands.scale[i][h], cands.zero_point[i][h],
                                op.A_quantizer.n_bits)
                 ELSE quant_input(op.A_quantizer, h, a[c])]
        qb == [c \in 1..Len(b) |->
                 IF side = "B"
                 THEN CandQuant(b[c], cands.scale[i][h], cands.zero_point[i][h],
                                op.B_quantizer.n_bits)
                 ELSE quant_input(op.B_quantizer, h, b[c])]
    IN _get_similarity(op.raw_out[s][h], Dot(qa, qb), op.metric)

\* matmul.py 170-197: candidate i's similarity for head h, the mean over the
\* (single) output element summed over the samples of each chunk (line 192),
\* then over the chunks (line 197)
CandSimilarity(op, side, cands, i, h) ==
    LET calib_size == Len(op.raw_input.A)
        starts == ChunkStarts(calib_size, op.calib_batch_size)
    IN FSum([j \in 1..Len(starts) |->
             FSum([t \in 1..(Min(calib_size, starts[j] + op.calib_batch_size) - starts[j]) |->
                     SampleSimilarity(op, side, cands, i, starts[j] + t, h)])])

\* matmul.py 195-198: the similarities of the evaluated candidates,
\* concatenated in loop order, and their argmax per head
best_index_of(op, side, cands, parallel_eq_n) ==
    LET ev == Evaluated(EqN, parallel_eq_n)
    IN [h \in Heads |->
          ArgMax([j \in 1..Len(ev) |-> CandSimilarity(op, side, cands, ev[j], h)])]

\* matmul.py 199-202 (237-240): the gathered winner copied into the quantizer
WriteBest(q, cands, best_index) ==
    [q EXCEPT !.scale = [h \in Heads |-> cands.scale[best_index[h]][h]],
              !.zero_point = [h \in Heads |-> cands.zero_point[best_index[h]][h]]]

\* matmul.py 178-193 per chunk: the (chunk start, candidate index) pairs scored
\* by one search, in loop order
ScoredPairs(op, parallel_eq_n) ==
    LET starts == ChunkStarts(Len(op.raw_input.A), op.calib_batch_size)
        ev == Evaluated(EqN, parallel_eq_n)
    IN Flatten([j \in 1..Len(starts) |-> [t \in 1..Len(ev) |-> <<starts[j], ev[t]>>]])

\* the total similarity of quant_input_A(A) @ quant_input_B(B) against raw_out
\* for head h under the parameters now in the quantizers (lines 45-47 with the
\* reduction of lines 187-197)
WrittenSimilarity(op, h) ==
    LET calib_size == Len(op.raw_input.A)
    IN FSum([s \in 1..calib_size |->
               _get_similarity(
                   op.raw_out[s][h],
                   Dot([c \in 1..Len(op.raw_input.A[s][h]) |->
                          quant_input(op.A_quantizer, h, Fin(op.raw_input.A[s][h][c], 1))],
                       [c \in 1..Len(op.raw_input.B[s][h]) |->
                          quant_input(op.B_quantizer, h, Fin(op.raw_input.B[s][h][c], 1))]),
                   op.metric)])


\* -------------------------------------------------------- matmul operators
\* matmul.py 144 with the quotient rounded down instead of up
parallel_eq_n_floor(eq_n, p) == Max(eq_n \div CeilDiv(eq_n, p), 1)

\* matmul.py 143-144: p is max(int((memory / 4) // numel), 1), the parallelism
\* the device memory allows; the result is
\*   math.ceil(eq_n * 1.0 / math.ceil(eq_n * 1.0 / p))
parallel_eq_n_of(eq_n, p) == CeilDiv(eq_n, CeilDiv(eq_n, p))

NoTensor == <<>>

\* matmul.py 15-24, 80-102, 125-128, 148-165: the operator __init__ leaves.
\* cls is the class; a MinMaxQuantMatMul has neither metric, search_round,
\* eq_n nor calib_batch_size (metric = "" stands for: no such attribute) and
\* its quantizers are symmetric, those of the asymmetric operator are not.
\* hooks counts the capture-hook pairs registered on the module.
NewOperator(cls, A_bit, B_bit, metric, search_round, calib_batch_size) ==
    [cls |-> cls,
     mode |-> "raw",
     A_quantizer |-> UniformQuantizer(A_bit, cls = "MinMaxQuantMatMul"),
     B_quantizer |-> UniformQuantizer(B_bit, cls = "MinMaxQuantMatMul"),
     raw_input |-> [A |-> NoTensor, B |-> NoTensor],
     raw_out |-> NoTensor,
     raw_attrs |-> TRUE,
     tmp_input |-> [A |-> NoTensor, B |-> NoTensor],
     tmp_out |-> NoTensor,
     calibrated |-> FALSE,
     metric |-> IF cls = "MinMaxQuantMatMul" THEN "" ELSE metric,
     search_round |-> search_round,
     calib_batch_size |-> calib_batch_size,
     hooks |-> 0]

Quantizer(op, side) == IF side = "A" THEN op.A_quantizer ELSE op.B_quantizer

\* a result of a forward call: err names the exception raised ("" for none),
\* out is the output per head
Result(err, out) == [err |-> err, out |-> out]

NoOut == [h \in Heads |-> Fin(0, 1)]

\* quant_forward without its assertion
quant_forward_unguarded(op, A, B) ==
    LET qa == [h \in Heads |-> [c \in 1..Len(A[h]) |->
                  quant_input(op.A_quantizer, h, Fin(A[h][c], 1))]]
        qb == [h \in Heads |-> [c \in 1..Len(B[h]) |->
                  quant_input(op.B_quantizer, h, Fin(B[h][c], 1))]]
    IN IF \E h \in Heads : \E c \in 1..Len(A[h]) :
             qa[h][c] = AssertionError \/ qb[h][c] = AssertionError
       THEN Result(NotInitedError, NoOut)
       ELSE Result("", [h \in Heads |-> Dot(qa[h], qb[h])])

\* matmul.py 45-47 on one sample (A and B are [h \in Heads |-> row]):
\* assert self.calibrated, then quant_input_A(A) @ quant_input_B(B); a
\* quantizer that is not inited fails its own assertion (uniform.py 27)
quant_forward(op, A, B) ==
    IF ~op.calibrated
    THEN Result(NotCalibratedError, NoOut)
    ELSE quant_forward_unguarded(op, A, B)

\* matmul.py 26-37 on one sample.  The two perturbation modes are not
\* modelled: nothing in src/ sets them.
forward(op, A, B) ==
    IF op.mode = "raw"
    THEN Result("", [h \in Heads |-> Fin(SumSeq([c \in 1..Len(A[h]) |-> A[h][c] * B[h][c]]), 1)])
    ELSE IF op.mode = "quant_forward" THEN quant_forward(op, A, B)
    ELSE Result("NotImplementedError", NoOut)


\* ------------------------------------------------------------------ state
VARIABLES
    mod,       \* [Modules -> operator record]: model.named_modules(), in order
    feed,      \* [Modules -> dataset]: the (A, B) each module receives when
               \* the calibration loader is run through the model, per batch
    pc,        \* where batching_quant_calib stands ("idle": not running)
    cur,       \* the module of the current loop iteration (0 before the first)
    batch,     \* the next loader batch of the running forward pass
    runs,      \* batching_quant_calib() calls made so far
    outcome,   \* how the last call ended: "", "returned" or the exception
    loc,       \* the locals of the running hyperparameter_searching()
    searched,  \* the modules whose hyperparameter_searching() returned, in order
    evals,     \* the (chunk start, candidate) pairs scored by the last search
    sims,      \* per head, the written-parameter similarity after each search
               \* step of the running hyperparameter_searching()
    last,      \* the last direct forward call and its result
    qz,        \* a stand-alone UniformQuantizer (SpecQuantizer)
    par        \* one evaluation of the parallelism formula (SpecParallel)

vars == <<mod, feed, pc, cur, batch, runs, outcome, loc, searched, evals, sims,
          last, qz, par>>

\* ------------------------------------------------------------ the inputs
\* one sample of head 1's rows, lifted to every head (even heads negated)
Sample(row) == [h \in Heads |-> [c \in 1..Len(row) |-> IF h % 2 = 1 THEN row[c] ELSE -row[c]]]

\* a dataset: a sequence of loader batches, each a record of the A and B
\* tensors the module receives for that batch (here one sample per batch)
Dataset(As, Bs) ==
    [k \in 1..Len(As) |-> [A |-> <<Sample(As[k])>>, B |-> <<Sample(Bs[k])>>]]

\* spread values: every percentile pair has upper > lower
FeedSpread == Dataset(<< <<-1, 2>>, <<0, 1>> >>, << <<1, -1>>, <<2, 0>> >>)

\* A is zero except for one element: the innermost percentile pair of A
\* coincides (upper = lower), the others do not
FeedSparse == Dataset(<< <<0, 0>>, <<0, 2>> >>, << <<1, 1>>, <<0, 1>> >>)

\* A is constant: every percentile pair of A coincides
FeedConstant == Dataset(<< <<1, 1>>, <<1, 1>> >>, << <<1, -1>>, <<2, 0>> >>)

Asym == "AsymmetricallyBatchingQuantMatMul"

\* the (operator, dataset) pairs a model is assembled from
Setups ==
    { <<NewOperator(Asym, 2, 2, "mse", MaxRound, 1), FeedSpread>>,
      <<NewOperator(Asym, 2, 32, "mae", MaxRound, 1), FeedSpread>>,
      <<NewOperator(Asym, 2, 2, "mse", 0, 2), FeedSparse>>,
      <<NewOperator(Asym, 2, 2, "mae", MaxRound, 1), FeedConstant>>,
      <<NewOperator(Asym, 2, 2, "hessian", 0, 1), FeedSpread>>,
      <<NewOperator("MinMaxQuantMatMul", 2, 32, "", 0, 1), FeedSpread>> }

NoLoc ==
    [parallel_eq_n |-> 0, capacity |-> 0, side |-> "", mbs |-> 0, step |-> 0,
     uppers |-> [sd \in Sides |-> [i \in 0..EqN |-> [h \in Heads |-> 0]]],
     lowers |-> [sd \in Sides |-> [i \in 0..EqN |-> [h \in Heads |-> 0]]],
     den |-> [sd \in Sides |-> 0],
     best_index |-> [sd \in Sides |-> [h \in Heads |-> 0]]]

\* the devices, by the number of elements one torch.quantile call takes: every
\* tensor of one capture pass, half of it, a single element, or none at all
\* (a quantile that raises at every grouping).  A call's failure pattern is
\* the number of failed attempts before the first success, so these cover
\* 0, 1, 2 and unboundedly many failures.
QuantileCapacities == {MaxElems, MaxElems \div 2, 1, 0}

NoCall == [op |-> "", m |-> 0, side |-> "", x |-> 0, res |-> Result("", NoOut)]

NoQuantizer == UniformQuantizer(32, TRUE)

NoPar == [eq_n |-> 0, p |-> 0, parallel_eq_n |-> 0]

Init ==
    /\ \E su \in [Modules -> Setups] :
          /\ mod = [m \in Modules |-> su[m][1]]
          /\ feed = [m \in Modules |-> su[m][2]]
    /\ pc = "idle"
    /\ cur = 0
    /\ batch = 0
    /\ runs = 0
    /\ outcome = ""
    /\ loc = NoLoc
    /\ searched = <<>>
    /\ evals = <<>>
    /\ sims = <<>>
    /\ last = NoCall
    /\ qz = NoQuantizer
    /\ par = NoPar


\* ------------------------------------------------- the model's forward pass
RECURSIVE Repeat(_, _)
Repeat(sq, n) == IF n = 0 THEN <<>> ELSE sq \o Repeat(sq, n - 1)

NumBatches == Len(feed[1])

\* module m's forward on every sample of loader batch k
ForwardBatch(ms, m, k) ==
    [s \in 1..Len(feed[m][k].A) |-> forward(ms[m], feed[m][k].A[s], feed[m][k].B[s])]

ForwardRaises(ms, m, k) ==
    \E s \in 1..Len(feed[m][k].A) : ForwardBatch(ms, m, k)[s].err # ""

\* the first module whose forward raises on batch k (NumModules + 1: none)
FirstFailing(ms, k) ==
    IF \E m \in Modules : ForwardRaises(ms, m, k)
    THEN CHOOSE m \in Modules : /\ ForwardRaises(ms, m, k)
                                /\ \A n \in Modules : ForwardRaises(ms, n, k) => m <= n
    ELSE NumModules + 1

\* calibrator.py 19-28: double_input_forward_hook and outp_forward_hook after
\* module m's forward on batch k, once per registered hook pair
FireHooks(ms, m, k) ==
    IF ms[m].hooks = 0 THEN ms[m]
    ELSE [ms[m] EXCEPT
            !.tmp_input = [A |-> @.A \o Repeat(feed[m][k].A, ms[m].hooks),
                           B |-> @.B \o Repeat(feed[m][k].B, ms[m].hooks)],
            !.tmp_out = @ \o Repeat([s \in 1..Len(feed[m][k].A) |->
                                        ForwardBatch(ms, m, k)[s].out], ms[m].hooks)]

\* self.model(inp) on batch k when the forward of module f raises (f =
\* NumModules + 1: no forward raises): the modules before f have run
ModelForward(ms, k, f) ==
    [m \in Modules |-> IF m < f THEN FireHooks(ms, m, k) ELSE ms[m]]

\* calibrator.py 39-43: the float pass over the loader from batch k on; the
\* record of the modules after it and whether a forward raised
RECURSIVE PrePass(_, _)
PrePass(ms, k) ==
    IF k > NumBatches THEN [ms |-> ms, raised |-> FALSE]
    ELSE IF FirstFailing(ms, k) <= NumModules
    THEN [ms |-> ModelForward(ms, k, FirstFailing(ms, k)), raised |-> TRUE]
    ELSE PrePass(ModelForward(ms, k, NumModules + 1), k + 1)

\* the test of line 49 without its calibrated half
HasMetric(op) == op.metric # ""

\* calibrator.py 46, 49: hasattr(module, 'metric') and not module.calibrated
Eligible(op) == op.metric # "" /\ ~op.calibrated

\* an exception leaves batching_quant_calib: its locals are gone
Raise(exc) ==
    /\ pc' = "idle"
    /\ outcome' = exc
    /\ cur' = 0
    /\ batch' = 0
    /\ loc' = NoLoc
    /\ evals' = <<>>
    /\ sims' = <<>>

\* ------------------------------------------------- batching_quant_calib
\* calibrator.py 35-47: the call and its float pass over the loader
StartCalib ==
    /\ pc = "idle"
    /\ runs < MaxRuns
    /\ runs' = runs + 1
    /\ last' = NoCall
    /\ mod' = PrePass(mod, 1).ms
    /\ IF PrePass(mod, 1).raised
       THEN Raise("AssertionError")
       ELSE /\ pc' = "loop"
            /\ outcome' = ""
            /\ cur' = 0
            /\ UNCHANGED <<batch, loc, evals, sims>>
    /\ UNCHANGED <<feed, searched, qz, par>>

\* calibrator.py 48-57: the next module that is not skipped, its hooks
\* registered; after the last module, on to line 81
NextModule ==
    /\ pc = "loop"
    /\ LET rest == {m \in Modules : m > cur /\ Eligible(mod[m])}
       IN IF rest = {}
          THEN /\ pc' = "flip"
               /\ UNCHANGED <<mod, cur, batch>>
          ELSE LET m == CHOOSE n \in rest : \A o \in rest : n <= o
               IN /\ cur' = m
                  /\ mod' = [mod EXCEPT ![m].hooks = @ + 1]
                  /\ batch' = 1
                  /\ pc' = "capture"
    /\ UNCHANGED <<feed, runs, outcome, loc, searched, evals, sims, last, qz, par>>

\* calibrator.py 58-61: one batch of the capture pass
CaptureBatch ==
    /\ pc = "capture"
    /\ batch <= NumBatches
    /\ FirstFailing(mod, batch) > NumModules
    /\ mod' = ModelForward(mod, batch, NumModules + 1)
    /\ batch' = batch + 1
    /\ UNCHANGED <<feed, pc, cur, runs, outcome, loc, searched, evals, sims, last, qz, par>>

\* calibrator.py 61: a forward raises: that of the first module in mode
\* quant_forward that is not calibrated, or else (a device error) that of the
\* module being captured, before its hooks run
CaptureRaises ==
    /\ pc = "capture"
    /\ batch <= NumBatches
    /\ mod' = ModelForward(mod, batch, Min(cur, FirstFailing(mod, batch)))
    /\ Raise("RuntimeError")
    /\ UNCHANGED <<feed, runs, searched, last, qz, par>>

\* calibrator.py 62-71: the captured batches concatenated into raw_out and
\* raw_input, this call's hooks removed, the accumulators reset
Concat ==
    /\ pc = "capture"
    /\ batch > NumBatches
    /\ mod' = [mod EXCEPT ![cur] =
                 [@ EXCEPT !.raw_out = mod[cur].tmp_out,
                           !.raw_input = mod[cur].tmp_input,
                           !.hooks = @ - 1,
                           !.tmp_input = [A |-> NoTensor, B |-> NoTensor],
                           !.tmp_out = NoTensor]]
    /\ pc' = "init_calib"
    /\ UNCHANGED <<feed, cur, batch, runs, outcome, loc, searched, evals, sims, last, qz, par>>


\* ------------------------------------------------ hyperparameter_searching
\* matmul.py 130-144: _initialize_calib_parameters; p is the parallelism the
\* device's memory allows (line 143).  The device also decides how many
\* elements one torch.quantile call can take (loc.capacity).
InitCalib ==
    /\ pc = "init_calib"
    /\ \E p \in 1..MaxPar, cap \in QuantileCapacities :
          loc' = [NoLoc EXCEPT !.parallel_eq_n = parallel_eq_n_of(EqN, p),
                               !.capacity = cap,
                               !.side = "A", !.mbs = 1]
    /\ pc' = "percentile"
    /\ UNCHANGED <<mod, feed, cur, batch, runs, outcome, searched, evals, sims, last, qz, par>>

\* matmul.py 138-139: CUDA is not available
InitCalibRaises ==
    /\ pc = "init_calib"
    /\ Raise("EnvironmentError")
    /\ UNCHANGED <<mod, feed, runs, searched, last, qz, par>>

\* whether torch.quantile raises at the current grouping (the tensor_too_large
\* case the loop of lines 251-258 is written for)
QuantileRaises ==
    Len(HeadElems(mod[cur].raw_input[loc.side], 1)) \div loc.mbs > loc.capacity

\* matmul.py 253-255, 259-260: the quantile calls succeed at the current
\* grouping; line 264 (side A), then line 265 (side B)
PercentileOk ==
    /\ pc = "percentile"
    /\ ~QuantileRaises
    /\ LET c == calculate_percentile_candidates(mod[cur].raw_input[loc.side], loc.mbs)
       IN loc' = [loc EXCEPT !.uppers[loc.side] = c.uppers,
                             !.lowers[loc.side] = c.lowers,
                             !.den[loc.side] = c.den,
                             !.side = IF loc.side = "A" THEN "B" ELSE "",
                             !.mbs = IF loc.side = "A" THEN 1 ELSE 0]
    /\ pc' = IF loc.side = "A" THEN "percentile" ELSE "seed"
    /\ UNCHANGED <<mod, feed, cur, batch, runs, outcome, searched, evals, sims, last, qz, par>>

\* a retry that keeps the grouping it had
SameGrouping(mbs) == mbs

\* matmul.py 257: mini_batch_size *= 2
NextGrouping(mbs) == 2 * mbs

\* matmul.py 256-258: a quantile call raises; the grouping factor doubles and
\* the tensor is viewed again, which raises out of the except block when the
\* elements do not divide into that many groups
PercentileRetry ==
    /\ pc = "percentile"
    /\ QuantileRaises
    /\ IF ViewOk(HeadElems(mod[cur].raw_input[loc.side], 1), NextGrouping(loc.mbs))
       THEN /\ loc' = [loc EXCEPT !.mbs = NextGrouping(@)]
            /\ UNCHANGED <<pc, outcome, cur, batch, evals, sims>>
       ELSE Raise("RuntimeError")
    /\ UNCHANGED <<mod, feed, runs, searched, last, qz, par>>

\* the grid of the initial searches (lines 266-269)
InitialCandidates(op, side) ==
    Candidates(loc.uppers[side], loc.lowers[side], loc.den[side],
               Quantizer(op, side).n_bits)

\* matmul.py 270-275 for one quantizer: the second-to-last grid entry copied
\* into scale and zero_point, then inited set
Seed(q, cands) ==
    [q EXCEPT !.scale = cands.scale[EqN - 1],
              !.zero_point = cands.zero_point[EqN - 1],
              !.inited = TRUE]

\* per head, the similarity under the written parameters (the observation
\* appended to sims after every step)
Written(op) == [h \in Heads |-> WrittenSimilarity(op, h)]

\* matmul.py 266-275
Seeding ==
    /\ pc = "seed"
    /\ LET op == [mod[cur] EXCEPT
                    !.A_quantizer = Seed(@, InitialCandidates(mod[cur], "A")),
                    !.B_quantizer = Seed(@, InitialCandidates(mod[cur], "B"))]
       IN /\ mod' = [mod EXCEPT ![cur] = op]
          /\ sims' = <<Written(op)>>
    /\ loc' = [loc EXCEPT !.side = "A"]
    /\ pc' = "search_init"
    /\ UNCHANGED <<feed, cur, batch, runs, outcome, searched, evals, last, qz, par>>

\* matmul.py 279-301: the refinement steps in loop order, each <<side, ee>>;
\* a side whose n_bits is 32 is skipped
RefineSteps(op) ==
    LET a == IF op.A_quantizer.n_bits < 32 THEN << <<"A", 0>>, <<"A", 1>> >> ELSE <<>>
        b == IF op.B_quantizer.n_bits < 32 THEN << <<"B", 0>>, <<"B", 1>> >> ELSE <<>>
    IN Repeat(a \o b, op.search_round)

\* matmul.py 283-289 (294-300): the grid of refinement step <<side, ee>>: one
\* endpoint held at the side's best index, the other swept
RefineCandidates(op, side, ee) ==
    Candidates(IF ee = 0 THEN Gather(loc.uppers[side], loc.best_index[side])
                         ELSE loc.uppers[side],
               IF ee = 0 THEN loc.lowers[side]
                         ELSE Gather(loc.lowers[side], loc.best_index[side]),
               loc.den[side], Quantizer(op, side).n_bits)

\* the best indices a search of this side can return.  A 32-bit side is
\* scored with 2^32 - 1 levels, outside TLC's integers: any evaluated index
\* may win there.
BestIndices(op, side, cands) ==
    IF Quantizer(op, side).n_bits = 32
    THEN [Heads -> {Evaluated(EqN, loc.parallel_eq_n)[j] :
                        j \in 1..Len(Evaluated(EqN, loc.parallel_eq_n))}]
    ELSE {best_index_of(op, side, cands, loc.parallel_eq_n)}

\* matmul.py 167-203 (205-241): one _search_best_A_scale / _search_best_B_scale
\* call on the grid cands, returning best
SearchBest(side, cands, best) ==
    LET op == IF side = "A"
              THEN [mod[cur] EXCEPT !.A_quantizer = WriteBest(@, cands, best)]
              ELSE [mod[cur] EXCEPT !.B_quantizer = WriteBest(@, cands, best)]
    IN /\ mod' = [mod EXCEPT ![cur] = op]
       /\ sims' = Append(sims, Written(op))
       /\ evals' = ScoredPairs(mod[cur], loc.parallel_eq_n)

\* matmul.py 277-278: the initial search of side A, then of side B
SearchInit ==
    /\ pc = "search_init"
    /\ ~SimilarityRaises(mod[cur].metric)
    /\ \E best \in BestIndices(mod[cur], loc.side, InitialCandidates(mod[cur], loc.side)) :
          /\ SearchBest(loc.side, InitialCandidates(mod[cur], loc.side), best)
          /\ loc' = [loc EXCEPT !.best_index[loc.side] = best,
                                !.side = IF loc.side = "A" THEN "B" ELSE "",
                                !.step = IF loc.side = "A" THEN 0 ELSE 1]
    /\ pc' = IF loc.side = "A" THEN "search_init"
             ELSE IF RefineSteps(mod[cur]) = <<>> THEN "finish" ELSE "search_refine"
    /\ UNCHANGED <<feed, cur, batch, runs, outcome, searched, last, qz, par>>

\* matmul.py 187 in the first search: _get_similarity raises (lines 110, 120)
SearchRaises ==
    /\ pc = "search_init"
    /\ SimilarityRaises(mod[cur].metric)
    /\ Raise(IF mod[cur].metric \in Metrics THEN "AssertionError" ELSE "NotImplementedError")
    /\ UNCHANGED <<mod, feed, runs, searched, last, qz, par>>

\* matmul.py 279-301: one refinement step
SearchRefine ==
    /\ pc = "search_refine"
    /\ LET st == RefineSteps(mod[cur])[loc.step]
           cands == RefineCandidates(mod[cur], st[1], st[2])
       IN \E best \in BestIndices(mod[cur], st[1], cands) :
             /\ SearchBest(st[1], cands, best)
             /\ loc' = [loc EXCEPT !.best_index[st[1]] = best, !.step = @ + 1]
    /\ pc' = IF loc.step = Len(RefineSteps(mod[cur])) THEN "finish" ELSE "search_refine"
    /\ UNCHANGED <<feed, cur, batch, runs, outcome, searched, last, qz, par>>

\* the latch set, the del statement left out
EndSearchKeepRaw(op) == [op EXCEPT !.calibrated = TRUE]

\* matmul.py 303-304: calibrated latched; raw_input, raw_out and raw_grad
\* deleted (raw_attrs: the three attributes exist)
EndSearch(op) ==
    [op EXCEPT !.calibrated = TRUE,
               !.raw_input = [A |-> NoTensor, B |-> NoTensor],
               !.raw_out = NoTensor,
               !.raw_attrs = FALSE]

\* matmul.py 303-305, then calibrator.py 75-79: the search returns; the
\* matmul operators have no prev_layer, so no reparam
Finish ==
    /\ pc = "finish"
    /\ mod' = [mod EXCEPT ![cur] = EndSearch(@)]
    /\ searched' = Append(searched, cur)
    /\ loc' = NoLoc
    /\ evals' = <<>>
    /\ sims' = <<>>
    /\ pc' = "loop"
    /\ UNCHANGED <<feed, cur, batch, runs, outcome, last, qz, par>>

\* the mode set on the current module only
FlipCurrentOnly(ms) ==
    [m \in Modules |-> IF m = Max(cur, 1) THEN [ms[m] EXCEPT !.mode = "quant_forward"] ELSE ms[m]]

\* calibrator.py 81-83: every module with a mode attribute set to quant_forward
FlipModes(ms) == [m \in Modules |-> [ms[m] EXCEPT !.mode = "quant_forward"]]

\* calibrator.py 80-83, and the return
Flip ==
    /\ pc = "flip"
    /\ mod' = FlipModes(mod)
    /\ pc' = "idle"
    /\ outcome' = "returned"
    /\ cur' = 0
    /\ UNCHANGED <<feed, batch, runs, loc, searched, evals, sims, last, qz, par>>


\* ------------------------------------------------------ direct forward calls
\* Between two batching_quant_calib calls the caller may run an operator on
\* the first sample of loader batch k, or a quantizer on a value x.  The calls
\* change no program state; last keeps one of them, until the next run.

\* module.forward(A, B), matmul.py 26-37
CallForward ==
    /\ pc = "idle"
    /\ last = NoCall
    /\ \E m \in Modules, k \in 1..NumBatches :
          last' = [op |-> "forward", m |-> m, side |-> "", x |-> k,
                   res |-> forward(mod[m], feed[m][k].A[1], feed[m][k].B[1])]
    /\ UNCHANGED <<mod, feed, pc, cur, batch, runs, outcome, loc, searched, evals, sims, qz, par>>

\* module.quant_forward(A, B), matmul.py 45-47
CallQuantForward ==
    /\ pc = "idle"
    /\ last = NoCall
    /\ \E m \in Modules, k \in 1..NumBatches :
          last' = [op |-> "quant_forward", m |-> m, side |-> "", x |-> k,
                   res |-> quant_forward(mod[m], feed[m][k].A[1], feed[m][k].B[1])]
    /\ UNCHANGED <<mod, feed, pc, cur, batch, runs, outcome, loc, searched, evals, sims, qz, par>>

\* what quant_input_A / quant_input_B return for the value x on every head
QuantInputResult(q, x) ==
    IF \E h \in Heads : AssertionError \in UniformQuantizer_forward(q, h, Fin(x, 1))
    THEN Result(NotInitedError, NoOut)
    ELSE Result("", [h \in Heads |-> quant_input(q, h, Fin(x, 1))])

\* module.quant_input_A(x) / quant_input_B(x), matmul.py 39-43
CallQuantInput ==
    /\ pc = "idle"
    /\ last = NoCall
    /\ \E m \in Modules, side \in Sides, x \in (-MaxX)..MaxX :
          last' = [op |-> "quant_input", m |-> m, side |-> side, x |-> x,
                   res |-> QuantInputResult(Quantizer(mod[m], side), x)]
    /\ UNCHANGED <<mod, feed, pc, cur, batch, runs, outcome, loc, searched, evals, sims, qz, par>>

Next ==
    \/ StartCalib
    \/ NextModule
    \/ CaptureBatch
    \/ CaptureRaises
    \/ Concat
    \/ InitCalib
    \/ InitCalibRaises
    \/ PercentileOk
    \/ PercentileRetry
    \/ Seeding
    \/ SearchInit
    \/ SearchRaises
    \/ SearchRefine
    \/ Finish
    \/ Flip
    \/ CallForward
    \/ CallQuantForward
    \/ CallQuantInput

Spec == Init /\ [][Next]_vars


\* ------------------------------------------- a quantizer on its own (C7)
MaxBits == 3           \* largest bit width below 32 of the stand-alone quantizer
MaxScale == 3          \* its scale is s / QDen, s in 0..MaxScale
MaxNum == 8            \* its input is x / QDen, x in -MaxNum..MaxNum

QDen == 2

QuantizerStates ==
    { [n_bits |-> b, sym |-> sy, inited |-> ini, training_mode |-> FALSE,
       drop_lt_1 |-> dr,
       scale |-> [h \in Heads |-> Fin(s, QDen)],
       zero_point |-> [h \in Heads |-> Fin(z, 1)]] :
         b \in (1..MaxBits) \cup {32}, sy \in BOOLEAN, ini \in BOOLEAN,
         dr \in BOOLEAN, s \in 0..MaxScale, z \in {0, 1} }

InitQuantizer ==
    /\ qz \in QuantizerStates
    /\ last = NoCall
    /\ mod = [m \in Modules |-> NewOperator("MinMaxQuantMatMul", 32, 32, "", 0, 1)]
    /\ feed = [m \in Modules |-> FeedSpread]
    /\ pc = "quantizer"
    /\ cur = 0
    /\ batch = 0
    /\ runs = 0
    /\ outcome = ""
    /\ loc = NoLoc
    /\ searched = <<>>
    /\ evals = <<>>
    /\ sims = <<>>
    /\ par = NoPar

\* uniform.py 18-19
init_training ==
    /\ pc = "quantizer"
    /\ ~qz.training_mode
    /\ qz' = [qz EXCEPT !.training_mode = TRUE]
    /\ last' = NoCall
    /\ UNCHANGED <<mod, feed, pc, cur, batch, runs, outcome, loc, searched, evals, sims, par>>

\* uniform.py 21-22
end_training ==
    /\ pc = "quantizer"
    /\ qz.training_mode
    /\ qz' = [qz EXCEPT !.training_mode = FALSE]
    /\ last' = NoCall
    /\ UNCHANGED <<mod, feed, pc, cur, batch, runs, outcome, loc, searched, evals, sims, par>>

\* uniform.py 24-40: forward on the one-element tensor x / QDen of head 1
QuantizerForward ==
    /\ pc = "quantizer"
    /\ \E x \in (-MaxNum)..MaxNum :
         \E r \in UniformQuantizer_forward(qz, 1, Fin(x, QDen)) :
            last' = [op |-> "quantizer", m |-> 0, side |-> "", x |-> x,
                     res |-> Result(IF r = AssertionError THEN NotInitedError ELSE "",
                                    [h \in Heads |-> IF r = AssertionError THEN Fin(0, 1) ELSE r])]
    /\ UNCHANGED <<mod, feed, pc, cur, batch, runs, outcome, loc, searched, evals, sims, qz, par>>

NextQuantizer == init_training \/ end_training \/ QuantizerForward

SpecQuantizer == InitQuantizer /\ [][NextQuantizer]_vars

\* ------------------------------------ the parallelism formula on its own (C6)
MaxEqN == 12           \* largest eq_n tried
MaxMemPar == 12        \* largest memory-derived parallelism tried

InitParallel ==
    /\ \E n \in 1..MaxEqN, p \in 1..MaxMemPar :
          par = [eq_n |-> n, p |-> p, parallel_eq_n |-> 0]
    /\ last = NoCall
    /\ qz = NoQuantizer
    /\ mod = [m \in Modules |-> NewOperator("MinMaxQuantMatMul", 32, 32, "", 0, 1)]
    /\ feed = [m \in Modules |-> FeedSpread]
    /\ pc = "parallel"
    /\ cur = 0
    /\ batch = 0
    /\ runs = 0
    /\ outcome = ""
    /\ loc = NoLoc
    /\ searched = <<>>
    /\ evals = <<>>
    /\ sims = <<>>

\* matmul.py 143-144, then the candidate loop of lines 178-181
InitializeCalibParameters ==
    /\ pc = "parallel"
    /\ par.parallel_eq_n = 0
    /\ par' = [par EXCEPT !.parallel_eq_n = parallel_eq_n_of(par.eq_n, par.p)]
    /\ UNCHANGED <<mod, feed, pc, cur, batch, runs, outcome, loc, searched, evals, sims, last, qz>>

NextParallel == InitializeCalibParameters

SpecParallel == InitParallel /\ [][NextParallel]_vars


\* ================================================================== claims
HoldsRaw(op) ==
    op.raw_input.A # NoTensor \/ op.raw_input.B # NoTensor \/ op.raw_out # NoTensor

\* C1: a quantized-forward call (quant_forward directly, or forward while mode
\* is 'quant_forward') on an operator whose calibrated flag is false raises
\* the not-calibrated assertion and returns nothing, also once seeding has
\* set inited on both quantizers.
C1_ModeGating ==
    (/\ last.op \in {"forward", "quant_forward"}
     /\ ~mod[last.m].calibrated
     /\ (last.op = "quant_forward" \/ mod[last.m].mode = "quant_forward"))
    => (last.res.err = NotCalibratedError /\ last.res.out = NoOut)

\* C1's case: quant_forward called on an operator whose search was aborted
\* after seeding (both quantizers inited, calibrated still false)
C1_Witness ==
    /\ last.op = "quant_forward"
    /\ ~mod[last.m].calibrated
    /\ mod[last.m].A_quantizer.inited
    /\ mod[last.m].B_quantizer.inited
    /\ last.res.err = NotCalibratedError

AllRaw == \A m \in Modules : mod[m].mode = "raw"

\* C2: no mode changes while a search-eligible operator is uncalibrated, so
\* every capture pass runs with all operators in 'raw'; modes change in one
\* step only, the flip after the last search, which sets every operator to
\* 'quant_forward' as the call returns; a call that raises changes no mode.
C2_GlobalModeFlip ==
    /\ []((\E m \in Modules : Eligible(mod[m])) => AllRaw)
    /\ [](pc = "capture" => AllRaw)
    /\ [][(\E m \in Modules : mod'[m].mode # mod[m].mode)
            => (/\ pc = "flip"
                /\ outcome' = "returned"
                /\ \A m \in Modules : ~Eligible(mod[m])
                /\ \A m \in Modules : mod'[m].mode = "quant_forward")]_vars
    /\ [][(pc # "idle" /\ pc' = "idle" /\ outcome' # "returned")
            => \A m \in Modules : mod'[m].mode = mod[m].mode]_vars

\* C2's case: a call has returned after searching an operator, every mode flipped
C2_Witness ==
    /\ outcome = "returned"
    /\ Len(searched) = NumModules
    /\ \A m \in Modules : mod[m].mode = "quant_forward"

\* C3: once hyperparameter_searching() has returned for an operator it holds
\* neither raw_input, raw_out nor raw_grad, and at most one operator holds raw
\* calibration tensors at any time.
C3_RawRelease ==
    /\ \A m \in Modules : mod[m].calibrated => (~HoldsRaw(mod[m]) /\ ~mod[m].raw_attrs)
    /\ \A j \in 1..Len(searched) : ~HoldsRaw(mod[searched[j]])
    /\ Cardinality({m \in Modules : HoldsRaw(mod[m])}) <= 1

\* C3's case: one operator has been searched and released, the next holds
\* its raw tensors
C3_Witness ==
    \E m, n \in Modules : mod[m].calibrated /\ ~HoldsRaw(mod[m]) /\ HoldsRaw(mod[n])

\* C4: calibrated never goes back to false and becomes true only as a search
\* returns; the searches that returned are in traversal order, one per
\* calibrated operator, and a call that returns leaves every operator with a
\* metric calibrated; a calibrated operator is never captured again and its
\* quantizers are not written.
C4_CalibratedLatch ==
    /\ [](/\ \A i, j \in 1..Len(searched) : i < j => searched[i] < searched[j]
          /\ \A m \in Modules :
                mod[m].calibrated <=> (\E j \in 1..Len(searched) : searched[j] = m)
          /\ (pc = "idle" /\ outcome = "returned")
                => \A m \in Modules : mod[m].metric # "" => mod[m].calibrated)
    /\ [][\A m \in Modules :
            /\ mod[m].calibrated => mod'[m].calibrated
            /\ (~mod[m].calibrated /\ mod'[m].calibrated)
                  => (pc = "finish" /\ cur = m /\ searched' = Append(searched, m))
            /\ mod[m].calibrated
                  => (/\ mod'[m].A_quantizer = mod[m].A_quantizer
                      /\ mod'[m].B_quantizer = mod[m].B_quantizer
                      /\ mod'[m].hooks = mod[m].hooks
                      /\ ~HoldsRaw(mod'[m])
                      /\ (pc' \notin {"idle", "loop", "flip"} => cur' # m))]_vars

\* C4's case: a second batching_quant_calib call has skipped an operator the
\* first call calibrated and is capturing a later one
C4_Witness ==
    /\ runs >= 2
    /\ pc = "capture"
    /\ \E m \in Modules : m < cur /\ mod[m].calibrated

\* C5 (as claimed): the total similarity under the written parameters is
\* non-decreasing from each search step to the next, per head, from the seed
\* through the initial searches and every refinement step.
C5_SimilarityNonDecreasing ==
    \A j \in 1..(Len(sims) - 1) : \A h \in Heads : FLeq(sims[j][h], sims[j + 1][h])

\* C6 (as claimed): parallel_eq_n is an exact divisor of eq_n, at most the
\* memory-derived value, so that every candidate group has the same length.
C6_ExactDivisor ==
    par.parallel_eq_n # 0 =>
        /\ par.parallel_eq_n <= par.p
        /\ par.eq_n % par.parallel_eq_n = 0

\* C6 (amended): parallel_eq_n is at least 1 and at most the memory-derived
\* value, and it is the smallest group size that needs no more groups than
\* the memory-derived one: ceil(eq_n / parallel_eq_n) = ceil(eq_n / p).  The
\* groups cover 0..eq_n-1 once each; the last one may be shorter, never empty.
C6_BalancedGroups ==
    par.parallel_eq_n # 0 =>
        /\ par.parallel_eq_n >= 1
        /\ par.parallel_eq_n <= par.p
        /\ CeilDiv(par.eq_n, par.parallel_eq_n) = CeilDiv(par.eq_n, par.p)
        /\ \A g \in 1..(par.parallel_eq_n - 1) :
              CeilDiv(par.eq_n, g) > CeilDiv(par.eq_n, par.p)
        /\ Evaluated(par.eq_n, par.parallel_eq_n) = Range(0, par.eq_n)
        /\ \A j \in 1..Len(GroupStarts(par.eq_n, par.parallel_eq_n)) :
              GroupStarts(par.eq_n, par.parallel_eq_n)[j] < par.eq_n

\* C6's case: the formula has produced a group size that does not divide eq_n
C6_Witness ==
    /\ par.parallel_eq_n > 1
    /\ par.eq_n % par.parallel_eq_n # 0

\* C7: for an inited symmetric quantizer below 32 bits, outside the
\* stochastic bypass, with positive scale, forward returns for every x in
\* [-scale * n_levels, scale * (n_levels - 1)] a value within scale of x.
C7_RoundTripBound ==
    (/\ last.op = "quantizer"
     /\ qz.sym /\ qz.n_bits < 32 /\ qz.inited
     /\ ~(qz.training_mode /\ qz.drop_lt_1)
     /\ qz.scale[1].n > 0
     /\ FLeq(FMul(qz.scale[1], Fin(-n_levels(qz), 1)), Fin(last.x, QDen))
     /\ FLeq(Fin(last.x, QDen), FMul(qz.scale[1], Fin(n_levels(qz) - 1, 1))))
    => (/\ last.res.err = ""
        /\ FLeq(FAbs(FSub(last.res.out[1], Fin(last.x, QDen))), qz.scale[1]))

\* C7's case: an in-range x that is not on the grid has been quantized by a
\* symmetric inited quantizer with more than two levels
C7_Witness ==
    /\ last.op = "quantizer"
    /\ qz.sym /\ qz.n_bits < 32 /\ qz.n_bits > 1 /\ qz.inited
    /\ ~qz.training_mode
    /\ qz.scale[1].n > 0
    /\ last.x < 0
    /\ FLeq(FMul(qz.scale[1], Fin(-n_levels(qz), 1)), Fin(last.x, QDen))
    /\ last.res.err = ""
    /\ last.res.out[1] # Fin(last.x, QDen)

\* C8: a quantizer whose n_bits is not 32 fails its forward assertion while
\* inited is false; a 32-bit quantizer returns its input unchanged whether
\* or not inited; inited changes only in the seeding step of
\* hyperparameter_searching, to true, with the seed scale and zero point
\* (grid entry eq_n - 1) written.
C8_InitGate ==
    /\ [](last.op = "quant_input" =>
            /\ (Quantizer(mod[last.m], last.side).n_bits # 32
                  /\ ~Quantizer(mod[last.m], last.side).inited)
                 => (last.res.err = NotInitedError /\ last.res.out = NoOut)
            /\ Quantizer(mod[last.m], last.side).n_bits = 32
                 => (/\ last.res.err = ""
                     /\ \A h \in Heads : last.res.out[h] = Fin(last.x, 1)))
    /\ [][\A m \in Modules, sd \in Sides :
            Quantizer(mod'[m], sd).inited # Quantizer(mod[m], sd).inited
               => (/\ pc = "seed" /\ m = cur
                   /\ Quantizer(mod'[m], sd).inited
                   /\ \A h \in Heads :
                        /\ Quantizer(mod'[m], sd).scale[h]
                             = InitialCandidates(mod[m], sd).scale[EqN - 1][h]
                        /\ Quantizer(mod'[m], sd).zero_point[h]
                             = InitialCandidates(mod[m], sd).zero_point[EqN - 1][h])]_vars

\* C8's case: after an aborted run that never reached seeding, the quantized
\* side of an operator has refused a forward call
C8_Witness ==
    /\ last.op = "quant_input"
    /\ runs >= 1
    /\ Quantizer(mod[last.m], last.side).n_bits # 32
    /\ ~Quantizer(mod[last.m], last.side).inited
    /\ mod[last.m].metric # ""
    /\ last.res.err = NotInitedError

\* C9 (as claimed): one search call scores every one of the eq_n + 1 grid
\* entries, the final p = 1.0 entry included, exactly once per chunk.
C9_EveryCandidateScored ==
    (pc \in {"search_init", "search_refine", "finish"} /\ evals # <<>>) =>
        \A j \in 1..Len(ChunkStarts(Len(mod[cur].raw_input.A), mod[cur].calib_batch_size)) :
           \A i \in 0..EqN :
              Cardinality({t \in 1..Len(evals) :
                 evals[t] = <<ChunkStarts(Len(mod[cur].raw_input.A),
                                          mod[cur].calib_batch_size)[j], i>>}) = 1

\* C10 (as claimed): every scale candidate of the initial and refinement
\* grids, and every scale of an inited quantizer, is strictly positive.
C10_ScalePositive ==
    /\ \A m \in Modules, sd \in Sides :
          Quantizer(mod[m], sd).inited =>
             \A h \in Heads : Quantizer(mod[m], sd).scale[h].n > 0
    /\ pc = "search_init" =>
          \A i \in 0..EqN, h \in Heads :
             InitialCandidates(mod[cur], loc.side).scale[i][h].n > 0
    /\ pc = "search_refine" =>
          \A i \in 0..EqN, h \in Heads :
             RefineCandidates(mod[cur], RefineSteps(mod[cur])[loc.step][1],
                              RefineSteps(mod[cur])[loc.step][2]).scale[i][h].n > 0

\* ---------------------------- calculate_percentile_candidates on its own
MaxSamples == 3        \* most calibration samples in a raw_input tensor

\* the rows a sample is made of
PercentileRows == {<<0, 0>>, <<0, 2>>, <<-1, 2>>}

\* the raw_input tensors: 1..MaxSamples samples, the later ones repeating
\* the second
PercentileInputs ==
    { [s \in 1..n |-> Sample(IF s = 1 THEN r1 ELSE r2)] :
         n \in 1..MaxSamples, r1 \in PercentileRows, r2 \in PercentileRows }

\* matmul.py 264: hyperparameter_searching enters calculate_percentile_candidates
\* for side A with the captured tensors in raw_input (the same tensor on both
\* sides); the device takes c elements per quantile call
InitPercentile ==
    /\ cur = 1
    /\ \E a \in PercentileInputs :
          mod = [n \in Modules |->
                   IF n = 1
                   THEN [NewOperator(Asym, 2, 2, "mse", 0, 1) EXCEPT
                            !.raw_input = [A |-> a, B |-> a]]
                   ELSE NewOperator(Asym, 2, 2, "mse", 0, 1)]
    /\ \E c \in 0..(2 * MaxSamples) :
          loc = [NoLoc EXCEPT !.parallel_eq_n = 1, !.capacity = c,
                              !.side = "A", !.mbs = 1]
    /\ pc = "percentile"
    /\ feed = [m \in Modules |-> FeedSpread]
    /\ batch = 0
    /\ runs = 1
    /\ outcome = ""
    /\ searched = <<>>
    /\ evals = <<>>
    /\ sims = <<>>
    /\ last = NoCall
    /\ qz = NoQuantizer
    /\ par = NoPar

NextPercentile == PercentileOk \/ PercentileRetry

\* the call is running code: its next attempt is eventually made
SpecPercentile == InitPercentile /\ [][NextPercentile]_vars /\ WF_vars(NextPercentile)

\* C11: calculate_percentile_candidates ends after finitely many attempts
\* whatever the quantile does: the grouping factor is a power of two no larger
\* than the number of elements per head, a failed attempt either doubles it
\* and retries or (the doubled grouping no longer divides the elements) raises
\* to the caller, a successful attempt returns the candidates, and the call
\* always leaves the retry loop.
C11_PercentileRetryTerminates ==
    /\ [](pc = "percentile" =>
            /\ \E k \in 0..MaxElems : loc.mbs = Pow2(k)
            /\ ViewOk(HeadElems(mod[cur].raw_input[loc.side], 1), loc.mbs))
    /\ [][(pc = "percentile" /\ QuantileRaises) =>
            \/ /\ pc' = "percentile"
               /\ loc'.side = loc.side
               /\ loc'.mbs = 2 * loc.mbs
            \/ /\ pc' = "idle"
               /\ outcome' = "RuntimeError"
               /\ ~ViewOk(HeadElems(mod[cur].raw_input[loc.side], 1), 2 * loc.mbs)]_vars
    /\ [][(pc = "percentile" /\ ~QuantileRaises) =>
            \/ pc' = "percentile" /\ loc.side = "A" /\ loc'.side = "B" /\ loc'.mbs = 1
            \/ pc' = "seed" /\ loc.side = "B"]_vars
    /\ (pc = "percentile") ~> (pc \in {"seed", "idle"})

\* C11's case: the quantile has failed at groupings 1 and 2 and fails again
\* at grouping 4
C11_Witness ==
    /\ pc = "percentile"
    /\ loc.mbs >= 4
    /\ QuantileRaises

\* C12 (as claimed): a capture hook is attached only to the operator being
\* calibrated and only during its capture pass; during a search, between
\* operators, and once batching_quant_calib has returned or raised, no operator
\* has a capture hook attached, and the searched operator's accumulators are
\* reset.
C12_HookLifecycle ==
    /\ \A m \in Modules : mod[m].hooks > 0 => (pc = "capture" /\ m = cur)
    /\ pc \in {"init_calib", "percentile", "seed", "search_init", "search_refine", "finish"}
          => (/\ mod[cur].tmp_input = [A |-> NoTensor, B |-> NoTensor]
              /\ mod[cur].tmp_out = NoTensor)

\* C13 (as claimed): when batching_quant_calib has returned normally, every
\* operator it switched to 'quant_forward' is calibrated, so a forward call
\* after it does not raise the not-calibrated assertion.
C13_FlippedAreCalibrated ==
    (pc = "idle" /\ outcome = "returned") =>
        /\ \A m \in Modules : mod[m].mode = "quant_forward" => mod[m].calibrated
        /\ last.op = "forward" => last.res.err # NotCalibratedError

=============================================================================
